---- MODULE Spec2Model ----
(***************************************************************************)
(* Model of bpaf's argument buffer (src/src/args.rs): tokenization of the  *)
(* raw argument vector by push_vec and the consuming primitives of Args.   *)
(*                                                                         *)
(* Strings are sequences of characters, a character is a one-element       *)
(* string.  Option<T> is a sequence of length at most one: None is <<>>,   *)
(* Some(v) is <<v>>.  Indices are the 0-based indices of the Rust code; the *)
(* element with index ix of a Vec is element ix + 1 of its sequence.       *)
(***************************************************************************)
EXTENDS Integers, Sequences, FiniteSets, TLC

VARIABLES xs, vec, pos_only, pc, items, removed, remaining, current, head,
          clone, last

vars == <<xs, vec, pos_only, pc, items, removed, remaining, current, head,
          clone, last>>

(***************************************************************************)
(* Bounds of the model.                                                    *)
(***************************************************************************)
\* most tokens of a buffer that is cloned
MaxCloneTokens == 2
\* most raw arguments in one argument vector
MaxArgs == 3
\* most characters in one argument vector, all raw arguments together
MaxChars == 5
\* most tokens of a token vector handed to Args::from(Vec<Arg>)
MaxTokens == 3
\* most raw arguments of a command line that is tokenized and then parsed
MaxCliArgs == 4

(***************************************************************************)
(* Characters and strings.                                                 *)
(***************************************************************************)
\* a character whose UTF-8 encoding takes two bytes
TwoByteChar == "U+00E9"
\* a byte that is no valid UTF-8: an OsString holding it has no text form
InvalidByte == "0xFF"
Chars == {"-", "=", "a", TwoByteChar}

None == <<>>
Some(v) == <<v>>

StrsUpTo(n) == UNION {[1..k -> Chars] : k \in 0..n}
\* OS strings: every text of at most n characters, and two undecodable ones
OsStrsUpTo(n) ==
    StrsUpTo(n) \cup {s \in {<<InvalidByte>>, <<"-", InvalidByte>>} : Len(s) <= n}

utf8_len(c) == IF c = TwoByteChar THEN 2 ELSE 1

\* str::len: the length in bytes
RECURSIVE str_len(_)
str_len(s) == IF s = <<>> THEN 0 ELSE utf8_len(Head(s)) + str_len(Tail(s))

\* OsStr::to_str
to_str(os) ==
    IF \E i \in 1..Len(os) : os[i] = InvalidByte THEN None ELSE Some(os)

strip_prefix(s, p) ==
    IF Len(s) >= Len(p) /\ SubSeq(s, 1, Len(p)) = p
    THEN Some(SubSeq(s, Len(p) + 1, Len(s)))
    ELSE None

split_once_last(s, d) ==
    IF \E i \in 1..Len(s) : s[i] = d
    THEN LET i == CHOOSE j \in 1..Len(s) :
                      s[j] = d /\ \A k \in (j + 1)..Len(s) : s[k] # d
         IN  Some(<<SubSeq(s, 1, i - 1), SubSeq(s, i + 1, Len(s))>>)
    ELSE None

\* str::split_once: splits at the first occurrence of the delimiter
split_once(s, d) ==
    IF \E i \in 1..Len(s) : s[i] = d
    THEN LET i == CHOOSE j \in 1..Len(s) :
                      s[j] = d /\ \A k \in 1..(j - 1) : s[k] # d
         IN  Some(<<SubSeq(s, 1, i - 1), SubSeq(s, i + 1, Len(s))>>)
    ELSE None

RECURSIVE TotalLen(_)
TotalLen(ss) == IF ss = <<>> THEN 0 ELSE Len(Head(ss)) + TotalLen(Tail(ss))

(***************************************************************************)
(* Tokens.                                                                 *)
(***************************************************************************)
Word(utf8, os) == [utf8 |-> utf8, os |-> os]

Short(c) == [tag |-> "Short", c |-> c]
Long(l) == [tag |-> "Long", l |-> l]
ArgWord(w) == [tag |-> "Word", w |-> w]

\* a Word made from text: both fields hold the text
TextWord(s) == ArgWord(Word(Some(s), s))

FmtError == <<"fmt::Error">>

Display_one_dash(arg) ==
    CASE arg.tag = "Short" -> <<"-", arg.c>>
      [] arg.tag = "Long" -> <<"-">> \o arg.l
      [] arg.tag = "Word" -> IF arg.w.utf8 # None THEN arg.w.utf8[1] ELSE FmtError

\* impl Display for Arg
Display(arg) ==
    CASE arg.tag = "Short" -> <<"-", arg.c>>
      [] arg.tag = "Long" -> <<"-", "-">> \o arg.l
      [] arg.tag = "Word" -> IF arg.w.utf8 # None THEN arg.w.utf8[1] ELSE FmtError

is_short(arg, short) == arg.tag = "Short" /\ arg.c = short

is_long(arg, long) == arg.tag = "Long" /\ arg.l = long

(***************************************************************************)
(* push_vec: the tokens one raw argument adds.  The result is the new      *)
(* vector, the new flag and whether the call panicked.                     *)
(***************************************************************************)
Pushed(v, p) == [vec |-> v, pos_only |-> p, panic |-> FALSE]
Panicked(v, p) == [vec |-> v, pos_only |-> p, panic |-> TRUE]

\* lines 163-171: the arguments that are taken as they are
is_positional_never(pos, utf8opt) == utf8opt = None

is_positional(pos, utf8opt) == pos \/ utf8opt = None

\* lines 176-184: the body of an argument beginning with --
push_long(v, body) ==
    LET kv == split_once(body, "=")
    IN  IF kv # None
        THEN Append(Append(v, Long(kv[1][1])), TextWord(kv[1][2]))
        ELSE Append(v, Long(body))

short_flags_dedup(body) ==
    LET keep == {i \in 1..Len(body) : \A j \in 1..(i - 1) : body[j] # body[i]}
        F[i \in 0..Len(body)] ==
            IF i = 0 THEN <<>>
            ELSE IF i \in keep THEN Append(F[i - 1], Short(body[i])) ELSE F[i - 1]
    IN  F[Len(body)]

\* lines 199-201: one Short for each character
short_flags(body) == [i \in 1..Len(body) |-> Short(body[i])]

\* lines 187-191: assert_eq!(key.len(), 1, ..)
key_is_valid(key) == str_len(key) = 1

\* lines 186-202: the body of an argument beginning with a single -
push_short(v, p, body) ==
    LET kv == split_once(body, "=")
    IN  IF kv # None
        THEN IF key_is_valid(kv[1][1])
             THEN Pushed(Append(Append(v, Short(Head(kv[1][1]))), TextWord(kv[1][2])), p)
             ELSE Panicked(v, p)
        ELSE Pushed(v \o short_flags(body), p)

push_vec(v, os, p) ==
    LET utf8opt == to_str(os)
    IN  IF is_positional(p, utf8opt)
        THEN Pushed(Append(v, ArgWord(Word(utf8opt, os))), p)
        ELSE LET utf8 == utf8opt[1]
                 long == strip_prefix(utf8, <<"-", "-">>)
                 short == strip_prefix(utf8, <<"-">>)
             IN  IF utf8 = <<"-", "-">> THEN Pushed(v, TRUE)
                 ELSE IF long # None THEN Pushed(push_long(v, long[1]), p)
                 ELSE IF short # None THEN push_short(v, p, short[1])
                 ELSE Pushed(Append(v, ArgWord(Word(Some(utf8), os))), p)

\* the loop of From<&[&str]>::from over the raw arguments ss, begun in state st
RECURSIVE tokenize_from(_, _)
tokenize_from(st, ss) ==
    IF ss = <<>> \/ st.panic THEN st
    ELSE tokenize_from(push_vec(st.vec, Head(ss), st.pos_only), Tail(ss))

\* the token vector of From<&[&str]>::from
tokenize(ss) == tokenize_from(Pushed(<<>>, FALSE), ss)

\* every token written with its Display
render(v) == [i \in 1..Len(v) |-> Display(v[i])]

(***************************************************************************)
(* Construction of an Args from raw arguments: the loop of From<&[&OsStr]> *)
(* and the call of From<Vec<Arg>> that ends it.                            *)
(***************************************************************************)
UsizeMax == 2147483647

NoCall == [op |-> "none"]

\* one turn of the loop, for the raw argument x
from_loop(x) ==
    /\ pc = "tokenize"
    /\ Len(xs) < MaxArgs
    /\ TotalLen(xs) + Len(x) <= MaxChars
    /\ LET r == push_vec(vec, x, pos_only)
       IN  /\ xs' = Append(xs, x)
           /\ vec' = r.vec
           /\ pos_only' = r.pos_only
           /\ pc' = IF r.panic THEN "panic" ELSE "tokenize"
           /\ last' = [op |-> "push_vec", os |-> x, vec |-> vec, pos_only |-> pos_only]
    /\ UNCHANGED <<items, removed, remaining, current, head, clone>>

\* Args::from(vec)
from_vec ==
    /\ pc = "tokenize"
    /\ pc' = "run"
    /\ items' = vec
    /\ removed' = [i \in 1..Len(vec) |-> FALSE]
    /\ remaining' = Len(vec)
    /\ current' = None
    /\ head' = UsizeMax
    /\ last' = [op |-> "from"]
    /\ UNCHANGED <<xs, vec, pos_only, clone>>

(***************************************************************************)
(* The buffer: the fields of Args that change, as one record.              *)
(***************************************************************************)
Buf == [removed |-> removed, remaining |-> remaining, current |-> current, head |-> head]

Min(a, b) == IF a <= b THEN a ELSE b

remove_head_last(b, index) ==
    IF ~b.removed[index + 1]
    THEN [b EXCEPT !.remaining = @ - 1,
                   !.head = index,
                   !.removed[index + 1] = TRUE]
    ELSE [b EXCEPT !.removed[index + 1] = TRUE]

remove_always_counts(b, index) ==
    [b EXCEPT !.remaining = @ - 1,
              !.head = Min(@, index),
              !.removed[index + 1] = TRUE]

\* Args::remove
remove(b, index) ==
    IF ~b.removed[index + 1]
    THEN [b EXCEPT !.remaining = @ - 1,
                   !.head = Min(@, index),
                   !.removed[index + 1] = TRUE]
    ELSE [b EXCEPT !.removed[index + 1] = TRUE]

is_empty(b) == b.remaining = 0

len(b) == b.remaining

items_iter_all(b) == [k \in 1..Len(items) |-> k - 1]

\* Args::items_iter with ArgsIter::next: the indices still present, ascending
items_iter(b) ==
    SelectSeq([k \in 1..Len(items) |-> k - 1], LAMBDA ix : ~b.removed[ix + 1])

\* the predicates of the callers: |f| f.is_short(c) || f.is_long(l), for the
\* characters and names of one named parser
Matches(predicate, arg) ==
    \/ \E c \in predicate.short : is_short(arg, c)
    \/ \E l \in predicate.long : is_long(arg, l)

\* Iterator::skip_while(|i| !predicate(i.1)): the rest from the first match on
skip_while(iter, predicate) ==
    LET hits == {k \in 1..Len(iter) : Matches(predicate, items[iter[k] + 1])}
    IN  IF hits = {} THEN <<>>
        ELSE SubSeq(iter, CHOOSE k \in hits : \A j \in hits : k <= j, Len(iter))

Ok(v) == [kind |-> "Ok", val |-> v]
Err(msg) == [kind |-> "Err", msg |-> msg]
Ret(b, ret) == [buf |-> b, ret |-> ret]

\* take_flag consuming the leftmost present token when its flag is present
take_flag_leftmost(b, predicate) ==
    LET iter == skip_while(items_iter(b), predicate)
    IN  IF iter # <<>>
        THEN Ret(remove(b, items_iter(b)[1]), TRUE)
        ELSE Ret(b, FALSE)

\* take_flag that reports the flag and leaves it in the buffer
take_flag_peek(b, predicate) ==
    LET iter == skip_while(items_iter(b), predicate)
    IN  Ret(b, iter # <<>>)

take_flag_with_value(b, predicate) ==
    LET iter == skip_while(items_iter(b), predicate)
    IN  IF iter # <<>>
        THEN IF Len(iter) >= 2 /\ items[iter[2] + 1].tag = "Word"
             THEN Ret(remove(remove(b, iter[1]), iter[2]), TRUE)
             ELSE Ret(remove(b, iter[1]), TRUE)
        ELSE Ret(b, FALSE)

\* Args::take_flag
take_flag(b, predicate) ==
    LET iter == skip_while(items_iter(b), predicate)
    IN  IF iter # <<>>
        THEN Ret(remove(b, iter[1]), TRUE)
        ELSE Ret(b, FALSE)

\* take_arg marking the flag consumed before it has looked for the value
take_arg_eager(b, predicate) ==
    LET iter == skip_while(items_iter(b), predicate)
    IN  IF iter = <<>> THEN Ret(b, Ok(None))
        ELSE LET key_ix == iter[1]
                 arg == items[key_ix + 1]
                 taken == remove(b, key_ix)
             IN  IF Len(iter) >= 2
                 THEN LET val_ix == iter[2]
                          val == items[val_ix + 1]
                      IN  IF val.tag = "Word"
                          THEN Ret(remove([taken EXCEPT !.current = Some(val.w)], val_ix),
                                   Ok(Some(val.w)))
                          ELSE Ret(taken, Err(Display(arg)
                                              \o <<" requires an argument, got flag ">>
                                              \o Display(val)))
                 ELSE Ret(taken, Err(Display(arg) \o <<" requires an argument">>))

\* take_arg treating a flag without a value as an absent flag
take_arg_lenient(b, predicate) ==
    LET iter == skip_while(items_iter(b), predicate)
    IN  IF iter = <<>> \/ Len(iter) = 1 THEN Ret(b, Ok(None))
        ELSE LET key_ix == iter[1]
                 arg == items[key_ix + 1]
                 val_ix == iter[2]
                 val == items[val_ix + 1]
             IN  IF val.tag = "Word"
                 THEN Ret(remove(remove([b EXCEPT !.current = Some(val.w)],
                                        key_ix), val_ix),
                          Ok(Some(val.w)))
                 ELSE Ret(b, Err(Display(arg)
                                 \o <<" requires an argument, got flag ">>
                                 \o Display(val)))

\* Args::take_arg
take_arg(b, predicate) ==
    LET iter == skip_while(items_iter(b), predicate)
    IN  IF iter = <<>> THEN Ret(b, Ok(None))
        ELSE LET key_ix == iter[1]
                 arg == items[key_ix + 1]
             IN  IF Len(iter) >= 2
                 THEN LET val_ix == iter[2]
                          val == items[val_ix + 1]
                      IN  IF val.tag = "Word"
                          THEN Ret(remove(remove([b EXCEPT !.current = Some(val.w)],
                                                 key_ix), val_ix),
                                   Ok(Some(val.w)))
                          ELSE Ret(b, Err(Display(arg)
                                          \o <<" requires an argument, got flag ">>
                                          \o Display(val)))
                 ELSE Ret(b, Err(Display(arg) \o <<" requires an argument">>))

\* take_positional_word searching the whole buffer for a Word
take_positional_word_any(b) ==
    LET words == SelectSeq(items_iter(b), LAMBDA ix : items[ix + 1].tag = "Word")
    IN  IF items_iter(b) = <<>> THEN Ret(b, Ok(None))
        ELSE IF words # <<>>
        THEN LET w == items[words[1] + 1].w
             IN  Ret(remove([b EXCEPT !.current = Some(w)], words[1]), Ok(Some(w)))
        ELSE Ret(b, Err(<<"Expected an argument, got ">>
                        \o Display(items[items_iter(b)[1] + 1])))

\* Args::take_positional_word
take_positional_word(b) ==
    LET iter == items_iter(b)
    IN  IF iter = <<>> THEN Ret(b, Ok(None))
        ELSE LET ix == iter[1]
                 arg == items[ix + 1]
             IN  IF arg.tag = "Word"
                 THEN Ret(remove([b EXCEPT !.current = Some(arg.w)], ix), Ok(Some(arg.w)))
                 ELSE Ret(b, Err(<<"Expected an argument, got ">> \o Display(arg)))

\* take_cmd storing the word it consumes in current
take_cmd_sets_current(b, word) ==
    LET iter == items_iter(b)
    IN  IF /\ iter # <<>>
           /\ items[iter[1] + 1].tag = "Word"
           /\ items[iter[1] + 1].w.utf8 = Some(word)
        THEN Ret(remove([b EXCEPT !.current = Some(items[iter[1] + 1].w)], iter[1]), TRUE)
        ELSE Ret(b, FALSE)

\* take_cmd searching the whole buffer for the word
take_cmd_any(b, word) ==
    LET hits == SelectSeq(items_iter(b),
                          LAMBDA ix : /\ items[ix + 1].tag = "Word"
                                      /\ items[ix + 1].w.utf8 = Some(word))
    IN  IF hits # <<>> THEN Ret(remove(b, hits[1]), TRUE) ELSE Ret(b, FALSE)

\* Args::take_cmd
take_cmd(b, word) ==
    LET iter == items_iter(b)
    IN  IF /\ iter # <<>>
           /\ items[iter[1] + 1].tag = "Word"
           /\ items[iter[1] + 1].w.utf8 = Some(word)
        THEN Ret(remove(b, iter[1]), TRUE)
        ELSE Ret(b, FALSE)

(***************************************************************************)
(* Calls on the buffer.  Each records the call, its argument, the state    *)
(* before it and what it returned.                                         *)
(***************************************************************************)
Call(op, arg, r) ==
    /\ removed' = r.buf.removed
    /\ remaining' = r.buf.remaining
    /\ current' = r.buf.current
    /\ head' = r.buf.head
    /\ last' = [op |-> op, arg |-> arg, pre |-> Buf, ret |-> r.ret]
    /\ UNCHANGED <<xs, vec, pos_only, pc, items, clone>>

Remove(index) ==
    /\ pc = "run"
    /\ index \in 0..(Len(items) - 1)
    /\ Call("remove", index, Ret(remove(Buf, index), TRUE))

TakeFlag(predicate) ==
    /\ pc = "run"
    /\ Call("take_flag", predicate, take_flag(Buf, predicate))

TakeArg(predicate) ==
    /\ pc = "run"
    /\ Call("take_arg", predicate, take_arg(Buf, predicate))

TakePositionalWord ==
    /\ pc = "run"
    /\ Call("take_positional_word", None, take_positional_word(Buf))

TakeCmd(word) ==
    /\ pc = "run"
    /\ Call("take_cmd", word, take_cmd(Buf, word))

(***************************************************************************)
(* Inputs of the buffer specification.                                     *)
(***************************************************************************)
ShortNames == {"a", TwoByteChar}
LongNames == {<<"a">>}
\* a named parser has a short name, a long name or both
Predicates ==
    {p \in [short : SUBSET ShortNames, long : SUBSET LongNames] :
        Cardinality(p.short) <= 1 /\ (p.short # {} \/ p.long # {})}
CmdNames == {<<"a">>, <<"-", "a">>}

Tokens ==
    {Short(c) : c \in ShortNames} \cup {Long(l) : l \in LongNames}
    \cup {TextWord(<<"a">>), ArgWord(Word(None, <<InvalidByte>>))}

TokenVecs == UNION {[1..n -> Tokens] : n \in 0..MaxTokens}

\* Args::from(vec) for any token vector
Init ==
    /\ xs = <<>>
    /\ vec = <<>>
    /\ pos_only = FALSE
    /\ pc = "run"
    /\ items \in TokenVecs
    /\ removed = [i \in 1..Len(items) |-> FALSE]
    /\ remaining = Len(items)
    /\ current = None
    /\ head = UsizeMax
    /\ clone = None
    /\ last = [op |-> "from"]

Next ==
    \/ \E index \in 0..(MaxTokens - 1) : Remove(index)
    \/ \E predicate \in Predicates : TakeFlag(predicate)
    \/ \E predicate \in Predicates : TakeArg(predicate)
    \/ TakePositionalWord
    \/ \E word \in CmdNames : TakeCmd(word)

Spec == Init /\ [][Next]_vars

InitTok ==
    /\ xs = <<>>
    /\ vec = <<>>
    /\ pos_only = FALSE
    /\ pc = "tokenize"
    /\ items = <<>>
    /\ removed = <<>>
    /\ remaining = 0
    /\ current = None
    /\ head = UsizeMax
    /\ clone = None
    /\ last = NoCall

NextTok ==
    \/ \E x \in OsStrsUpTo(MaxChars - TotalLen(xs)) : from_loop(x)
    \/ from_vec

SpecTok == InitTok /\ [][NextTok]_vars

(***************************************************************************)
(* A command line: Args::from(&[&str]) and then the calls of a named       *)
(* argument and a positional parser.                                       *)
(***************************************************************************)
CliArgs == {<<"-", "a">>, <<"-", "-", "a">>, <<"-", "-">>, <<"a">>}

\* one turn of the loop of From<&[&str]>, for the raw argument x
from_strs(x) ==
    /\ pc = "tokenize"
    /\ Len(xs) < MaxCliArgs
    /\ LET r == push_vec(vec, x, pos_only)
       IN  /\ xs' = Append(xs, x)
           /\ vec' = r.vec
           /\ pos_only' = r.pos_only
           /\ pc' = IF r.panic THEN "panic" ELSE "tokenize"
           /\ last' = [op |-> "push_vec", os |-> x, vec |-> vec, pos_only |-> pos_only]
    /\ UNCHANGED <<items, removed, remaining, current, head, clone>>

NextCli ==
    \/ \E x \in CliArgs : from_strs(x)
    \/ from_vec
    \/ \E predicate \in Predicates : TakeArg(predicate)
    \/ TakePositionalWord

SpecCli == InitTok /\ [][NextCli]_vars

(***************************************************************************)
(* A buffer and its clone.  #[derive(Clone)] copies removed, remaining,    *)
(* current and head into the new Args; items is an Rc<[Arg]> that both     *)
(* hold and nothing writes.  clone is None until b2 = b.clone() has run    *)
(* and Some(fields of b2) from then on.                                    *)
(***************************************************************************)
\* b2 = b.clone()
Clone ==
    /\ pc = "run"
    /\ clone = None
    /\ clone' = Some(Buf)
    /\ last' = [op |-> "clone"]
    /\ UNCHANGED <<xs, vec, pos_only, pc, items, removed, remaining, current, head>>

\* a call on b2 if the two buffers held one bitmap between them
CloneCall_shared_bitmap(op, arg, r) ==
    /\ clone' = Some(r.buf)
    /\ removed' = r.buf.removed
    /\ last' = [op |-> op, arg |-> arg, pre |-> clone[1], ret |-> r.ret, on |-> "b2"]
    /\ UNCHANGED <<xs, vec, pos_only, pc, items, remaining, current, head>>

\* a call on b2: it writes the fields of b2 and records the call
CloneCall(op, arg, r) ==
    /\ clone' = Some(r.buf)
    /\ last' = [op |-> op, arg |-> arg, pre |-> clone[1], ret |-> r.ret, on |-> "b2"]
    /\ UNCHANGED <<xs, vec, pos_only, pc, items, removed, remaining, current, head>>

CloneRemove(index) ==
    /\ pc = "run"
    /\ clone # None
    /\ index \in 0..(Len(items) - 1)
    /\ CloneCall("remove", index, Ret(remove(clone[1], index), TRUE))

CloneTakeFlag(predicate) ==
    /\ pc = "run"
    /\ clone # None
    /\ CloneCall("take_flag", predicate, take_flag(clone[1], predicate))

CloneTakeArg(predicate) ==
    /\ pc = "run"
    /\ clone # None
    /\ CloneCall("take_arg", predicate, take_arg(clone[1], predicate))

CloneTakePositionalWord ==
    /\ pc = "run"
    /\ clone # None
    /\ CloneCall("take_positional_word", None, take_positional_word(clone[1]))

CloneTakeCmd(word) ==
    /\ pc = "run"
    /\ clone # None
    /\ CloneCall("take_cmd", word, take_cmd(clone[1], word))

\* a flag by its short and by its long name, and a word
CloneTokens == {Short("a"), Long(<<"a">>), TextWord(<<"a">>)}
CloneTokenVecs == UNION {[1..n -> CloneTokens] : n \in 0..MaxCloneTokens}

\* Args::from(vec) for any token vector of the clone specification
InitClone ==
    /\ xs = <<>>
    /\ vec = <<>>
    /\ pos_only = FALSE
    /\ pc = "run"
    /\ items \in CloneTokenVecs
    /\ removed = [i \in 1..Len(items) |-> FALSE]
    /\ remaining = Len(items)
    /\ current = None
    /\ head = UsizeMax
    /\ clone = None
    /\ last = [op |-> "from"]

NextClone ==
    \/ Clone
    \/ \E index \in 0..(MaxCloneTokens - 1) : Remove(index)
    \/ \E predicate \in Predicates : TakeFlag(predicate)
    \/ \E predicate \in Predicates : TakeArg(predicate)
    \/ TakePositionalWord
    \/ \E word \in CmdNames : TakeCmd(word)
    \/ \E index \in 0..(MaxCloneTokens - 1) : CloneRemove(index)
    \/ \E predicate \in Predicates : CloneTakeFlag(predicate)
    \/ \E predicate \in Predicates : CloneTakeArg(predicate)
    \/ CloneTakePositionalWord
    \/ \E word \in CmdNames : CloneTakeCmd(word)

SpecClone == InitClone /\ [][NextClone]_vars

(***************************************************************************)
(* Properties.                                                             *)
(***************************************************************************)
IsText(os) == \A i \in 1..Len(os) : os[i] # InvalidByte
StartsWith(s, p) == Len(s) >= Len(p) /\ \A i \in 1..Len(p) : s[i] = p[i]
Dash == <<"-">>
DashDash == <<"-", "-">>
Drop(s, n) == [i \in 1..(Len(s) - n) |-> s[i + n]]
Take(s, n) == [i \in 1..n |-> s[i]]
HasEq(s) == \E i \in 1..Len(s) : s[i] = "="
FirstEq(s, i) == i \in 1..Len(s) /\ s[i] = "=" /\ \A k \in 1..(i - 1) : s[k] # "="

\* the last call tokenized a raw argument before the terminator
PushedFlagMode == last.op = "push_vec" /\ ~last.pos_only /\ IsText(last.os)

\* index ix was present before the last call
Present(b, ix) == ix \in 0..(Len(items) - 1) /\ ~b.removed[ix + 1]
\* ix is the lowest present index
FirstPresent(b, ix) == Present(b, ix) /\ \A k \in 0..(ix - 1) : ~Present(b, k)
\* ix is the lowest present index whose token the predicate accepts
FirstMatch(b, predicate, ix) ==
    /\ Present(b, ix)
    /\ Matches(predicate, items[ix + 1])
    /\ \A k \in 0..(ix - 1) : ~(Present(b, k) /\ Matches(predicate, items[k + 1]))
\* jx is the lowest present index above ix
NextPresent(b, ix, jx) ==
    Present(b, jx) /\ jx > ix /\ \A k \in (ix + 1)..(jx - 1) : ~Present(b, k)
NoMatch(b, predicate) ==
    \A k \in 0..(Len(items) - 1) : ~(Present(b, k) /\ Matches(predicate, items[k + 1]))
CountFalse(bitmap) == Cardinality({i \in 1..Len(bitmap) : ~bitmap[i]})
With(bitmap, ixs) == [i \in 1..Len(bitmap) |-> bitmap[i] \/ (i - 1) \in ixs]
\* how an error message shows a flag
FlagText(arg) == IF arg.tag = "Short" THEN <<"-", arg.c>> ELSE <<"-", "-">> \o arg.l

\* C1: after any sequence of calls len() is the number of false entries of the
\* removed bitmap, and is_empty() holds exactly when every entry is true.
C1_LenCountsPresent ==
    pc = "run" =>
        /\ Len(removed) = Len(items)
        /\ len(Buf) = CountFalse(removed)
        /\ is_empty(Buf) <=> \A i \in 1..Len(removed) : removed[i]

\* an index is removed a second time while other tokens are still present
C1_Witness ==
    /\ last.op = "remove"
    /\ last.pre.removed[last.arg + 1]
    /\ len(Buf) = 1
    /\ Len(items) = 3

\* C2: a primitive that fails (take_flag or take_cmd returning false, take_arg
\* or take_positional_word returning Ok(None) or Err) leaves removed,
\* remaining, head and current as they were before the call.
Failed ==
    \/ last.op \in {"take_flag", "take_cmd"} /\ last.ret = FALSE
    \/ /\ last.op \in {"take_arg", "take_positional_word"}
       /\ (last.ret.kind = "Err" \/ last.ret.val = None)

C2_FailureLeavesBuffer == Failed => Buf = last.pre

\* take_arg finds its flag but no value, on a buffer that earlier calls changed
C2_Witness ==
    /\ last.op = "take_arg"
    /\ last.ret.kind = "Err"
    /\ current # None
    /\ head = 0

\* C3: before the terminator the raw argument -- emits no token and switches
\* to positional-only mode; every raw argument after it is emitted as exactly
\* one Word carrying the argument unchanged.
C3_Terminator ==
    last.op = "push_vec" =>
        /\ (~last.pos_only /\ last.os = DashDash) =>
               (vec = last.vec /\ pos_only /\ pc = "tokenize")
        /\ last.pos_only =>
               /\ vec = Append(last.vec, [tag |-> "Word",
                                          w |-> [utf8 |-> IF IsText(last.os)
                                                          THEN <<last.os>> ELSE <<>>,
                                                 os |-> last.os]])
               /\ pos_only
               /\ pc = "tokenize"

\* a second -- after the terminator and a dashed argument is kept as a Word
C3_Witness ==
    /\ Len(xs) = 3
    /\ xs[1] = DashDash
    /\ xs[2] = <<"-">>
    /\ xs[3] = DashDash
    /\ vec = <<TextWord(<<"-">>), TextWord(DashDash)>>

\* C4: before the terminator a raw argument --<body> (other than -- itself)
\* whose body contains = gives Long(key), Word(value), split at the first =;
\* a body without = gives the single token Long(body).
C4_LongSplitsAtFirstEq ==
    (PushedFlagMode /\ StartsWith(last.os, DashDash) /\ last.os # DashDash) =>
        LET body == Drop(last.os, 2)
        IN  /\ pc = "tokenize"
            /\ ~pos_only
            /\ \A i \in 1..Len(body) : FirstEq(body, i) =>
                   vec = last.vec \o <<[tag |-> "Long", l |-> Take(body, i - 1)],
                                       TextWord(Drop(body, i))>>
            /\ ~HasEq(body) => vec = Append(last.vec, [tag |-> "Long", l |-> body])

\* --a=- : the value begins with a dash and is still one Word
C4_Witness ==
    /\ PushedFlagMode
    /\ last.os = <<"-", "-", "a", "=", "-">>
    /\ vec = <<Long(<<"a">>), TextWord(<<"-">>)>>

\* C5: before the terminator a raw argument -<body> (one dash) without = gives
\* one Short per character of body, in order and with duplicates kept; -a=b
\* gives Short(a), Word(b).
C5_ShortCluster ==
    (PushedFlagMode /\ StartsWith(last.os, Dash) /\ ~StartsWith(last.os, DashDash)) =>
        LET body == Drop(last.os, 1)
        IN  /\ ~HasEq(body) =>
                   /\ pc = "tokenize"
                   /\ ~pos_only
                   /\ Len(vec) = Len(last.vec) + Len(body)
                   /\ Take(vec, Len(last.vec)) = last.vec
                   /\ \A i \in 1..Len(body) :
                          vec[Len(last.vec) + i] = [tag |-> "Short", c |-> body[i]]
            /\ (Len(body) >= 2 /\ body[1] = "a" /\ body[2] = "=") =>
                   /\ pc = "tokenize"
                   /\ vec = last.vec \o <<[tag |-> "Short", c |-> "a"],
                                           TextWord(Drop(body, 2))>>

\* -aaa gives three Short(a)
C5_Witness ==
    /\ PushedFlagMode
    /\ last.os = <<"-", "a", "a", "a">>
    /\ vec = <<Short("a"), Short("a"), Short("a")>>

\* C6: for a raw argument -<key>=<value> before the terminator, tokenization
\* emits Short(key), Word(value) if and only if key is exactly one character,
\* and aborts for every other key.
C6_OneCharacterKey ==
    (PushedFlagMode /\ StartsWith(last.os, Dash) /\ ~StartsWith(last.os, DashDash)) =>
        LET body == Drop(last.os, 1)
        IN  \A i \in 1..Len(body) : FirstEq(body, i) =>
                IF i = 2
                THEN /\ pc = "tokenize"
                     /\ vec = last.vec \o <<[tag |-> "Short", c |-> body[1]],
                                             TextWord(Drop(body, 2))>>
                ELSE pc = "panic" /\ vec = last.vec

\* C7: take_arg, when the lowest present matching token is at i and the next
\* present token after i is a Word at j, returns that Word, removes exactly i
\* and j, lowers remaining by 2 and sets current to the Word.
C7_TakeArgTakesFlagAndWord ==
    last.op = "take_arg" =>
        \A i, j \in 0..(Len(items) - 1) :
            (/\ FirstMatch(last.pre, last.arg, i)
             /\ NextPresent(last.pre, i, j)
             /\ items[j + 1].tag = "Word") =>
                /\ last.ret = [kind |-> "Ok", val |-> <<items[j + 1].w>>]
                /\ removed = With(last.pre.removed, {i, j})
                /\ remaining = last.pre.remaining - 2
                /\ current = <<items[j + 1].w>>

\* the value is found behind a token that an earlier call removed
C7_Witness ==
    /\ last.op = "take_arg"
    /\ \E i, j \in 0..(Len(items) - 1) :
           /\ FirstMatch(last.pre, last.arg, i)
           /\ NextPresent(last.pre, i, j)
           /\ j > i + 1
           /\ items[j + 1].tag = "Word"
           /\ remaining = 0

\* C8: take_arg returns Ok(None) only when no present token matches; a
\* matching flag followed by another flag gives the error
\* "<flag> requires an argument, got flag <next>", a matching flag that is the
\* last present token gives "<flag> requires an argument".
C8_TakeArgErrors ==
    last.op = "take_arg" =>
        /\ last.ret = [kind |-> "Ok", val |-> <<>>] => NoMatch(last.pre, last.arg)
        /\ \A i \in 0..(Len(items) - 1) : FirstMatch(last.pre, last.arg, i) =>
               /\ \A j \in 0..(Len(items) - 1) :
                      (NextPresent(last.pre, i, j) /\ items[j + 1].tag # "Word") =>
                          last.ret = [kind |-> "Err",
                                      msg |-> FlagText(items[i + 1])
                                              \o <<" requires an argument, got flag ">>
                                              \o FlagText(items[j + 1])]
               /\ (\A j \in 0..(Len(items) - 1) : ~NextPresent(last.pre, i, j)) =>
                      last.ret = [kind |-> "Err",
                                  msg |-> FlagText(items[i + 1])
                                          \o <<" requires an argument">>]

\* the buffer holds the one token --a
C8_Witness ==
    /\ last.op = "take_arg"
    /\ items = <<Long(<<"a">>)>>
    /\ last.ret = [kind |-> "Err", msg |-> <<"-", "-", "a", " requires an argument">>]

\* C9: take_flag, when a present token matches, returns true and removes
\* exactly the lowest present matching index (remaining falls by 1, a Word next
\* to the flag stays); when none matches it returns false.
C9_TakeFlagTakesOne ==
    last.op = "take_flag" =>
        /\ \A i \in 0..(Len(items) - 1) : FirstMatch(last.pre, last.arg, i) =>
               /\ last.ret = TRUE
               /\ removed = With(last.pre.removed, {i})
               /\ remaining = last.pre.remaining - 1
               /\ current = last.pre.current
        /\ NoMatch(last.pre, last.arg) => last.ret = FALSE

\* the flag is taken and the Word behind it is still present
C9_Witness ==
    /\ last.op = "take_flag"
    /\ last.ret = TRUE
    /\ \E i \in 0..(Len(items) - 2) :
           /\ FirstMatch(last.pre, last.arg, i)
           /\ items[i + 2].tag = "Word"
           /\ ~removed[i + 2]

\* C10: take_positional_word looks only at the lowest present token: a Word is
\* removed, stored in current and returned; a Short or Long gives an error,
\* also when a Word is present later; with no token present the result is
\* Ok(None).
C10_PositionalLooksAtFirst ==
    last.op = "take_positional_word" =>
        /\ \A i \in 0..(Len(items) - 1) : FirstPresent(last.pre, i) =>
               IF items[i + 1].tag = "Word"
               THEN /\ last.ret = [kind |-> "Ok", val |-> <<items[i + 1].w>>]
                    /\ removed = With(last.pre.removed, {i})
                    /\ remaining = last.pre.remaining - 1
                    /\ current = <<items[i + 1].w>>
               ELSE /\ last.ret.kind = "Err"
                    /\ last.ret.msg = <<"Expected an argument, got ">>
                                      \o FlagText(items[i + 1])
                    /\ Buf = last.pre
        /\ (\A i \in 0..(Len(items) - 1) : ~Present(last.pre, i)) =>
               last.ret = [kind |-> "Ok", val |-> <<>>]

\* the first present token is a flag and a Word is present behind it
C10_Witness ==
    /\ last.op = "take_positional_word"
    /\ last.ret.kind = "Err"
    /\ \E j \in 0..(Len(items) - 1) : Present(Buf, j) /\ items[j + 1].tag = "Word"

\* C11: take_cmd(literal) returns true, removing exactly one index, if and
\* only if the lowest present token is a Word whose text equals literal; in
\* every other case it returns false and removes nothing.
C11_TakeCmdFirstWordOnly ==
    last.op = "take_cmd" =>
        LET hit == \E i \in 0..(Len(items) - 1) :
                       /\ FirstPresent(last.pre, i)
                       /\ items[i + 1].tag = "Word"
                       /\ items[i + 1].w.utf8 = <<last.arg>>
        IN  /\ last.ret = hit
            /\ hit => \E i \in 0..(Len(items) - 1) :
                          /\ FirstPresent(last.pre, i)
                          /\ removed = With(last.pre.removed, {i})
                          /\ remaining = last.pre.remaining - 1
            /\ ~hit => (removed = last.pre.removed /\ remaining = last.pre.remaining)

\* the literal is present, but behind a flag: the call returns false
C11_Witness ==
    /\ last.op = "take_cmd"
    /\ last.ret = FALSE
    /\ \E i, j \in 0..(Len(items) - 1) :
           /\ FirstPresent(Buf, i)
           /\ items[i + 1].tag # "Word"
           /\ Present(Buf, j)
           /\ items[j + 1] = TextWord(last.arg)

\* the predicate is the one of the flag written as the raw argument f
NamesFlag(predicate, f) ==
    \/ Len(f) = 2 /\ f[1] = "-" /\ f[2] # "-" /\ f[2] \in predicate.short
    \/ Len(f) > 2 /\ StartsWith(f, DashDash) /\ Drop(f, 2) \in predicate.long
IsFlagArg(f) == \E predicate \in Predicates : NamesFlag(predicate, f)
IsValueArg(v) == ~StartsWith(v, Dash)
Fresh(b) == \A i \in 1..Len(b.removed) : ~b.removed[i]
WordOf(x) == [utf8 |-> <<x>>, os |-> x]

\* C12: the terminator does not keep a named option from its value: for the
\* raw arguments [flag, v, --, x] take_arg on the flag returns v and a
\* following take_positional_word returns x; for [flag, --, x] take_arg on the
\* flag returns the Word x, whatever its text.
C12_TerminatorKeepsValue ==
    /\ (/\ pc = "run"
        /\ Len(xs) = 4
        /\ IsFlagArg(xs[1]) /\ IsValueArg(xs[2]) /\ xs[3] = DashDash) =>
           /\ Len(items) = 3
           /\ (/\ last.op = "take_arg"
               /\ Fresh(last.pre)
               /\ NamesFlag(last.arg, xs[1])) =>
                  /\ last.ret = [kind |-> "Ok", val |-> <<WordOf(xs[2])>>]
                  /\ removed = <<TRUE, TRUE, FALSE>>
           /\ (/\ last.op = "take_positional_word"
               /\ last.pre.removed = <<TRUE, TRUE, FALSE>>) =>
                  /\ last.ret = [kind |-> "Ok", val |-> <<WordOf(xs[4])>>]
                  /\ remaining = 0
    /\ (/\ pc = "run"
        /\ Len(xs) = 3
        /\ IsFlagArg(xs[1]) /\ xs[2] = DashDash
        /\ last.op = "take_arg"
        /\ Fresh(last.pre)
        /\ NamesFlag(last.arg, xs[1])) =>
           /\ last.ret = [kind |-> "Ok", val |-> <<WordOf(xs[3])>>]
           /\ remaining = 0

\* --a a -- -a : the option has taken a, the positional parser then gets -a
C12_Witness ==
    /\ xs = <<<<"-", "-", "a">>, <<"a">>, DashDash, <<"-", "a">>>>
    /\ last.op = "take_positional_word"
    /\ last.pre.removed = <<TRUE, TRUE, FALSE>>
    /\ last.pre.current = <<WordOf(<<"a">>)>>
    /\ last.ret = [kind |-> "Ok", val |-> <<WordOf(<<"-", "a">>)>>]

\* the raw arguments read so far are all text and tokenization has not aborted
TextOnly == pc = "tokenize" /\ \A i \in 1..Len(xs) : IsText(xs[i])
Retokenized == tokenize(render(vec))
\* no token whose Display reads as something else: a Word beginning with a
\* dash, a Long without a name (shown as --), a Short of a dash (shown as --)
ReadsAsItself(arg) ==
    CASE arg.tag = "Short" -> arg.c # "-"
      [] arg.tag = "Long" -> arg.l # <<>>
      [] arg.tag = "Word" -> ~StartsWith(arg.w.os, Dash)

\* C13 as stated: for every text-only raw argument vector, tokenizing the
\* Display of the produced tokens gives the same token vector.
C13_RenderedRetokenizes ==
    TextOnly => (~Retokenized.panic /\ Retokenized.vec = vec)

\* C13 amended: the same, for token vectors that hold no Word beginning with a
\* dash, no Long with an empty name and no Short('-').
C13_RenderedRetokenizesPlain ==
    (TextOnly /\ \A i \in 1..Len(vec) : ReadsAsItself(vec[i])) =>
        (~Retokenized.panic /\ Retokenized.vec = vec)

\* --a=a : rendered as the two strings --a and a, which give the same two tokens
C13_Witness ==
    /\ TextOnly
    /\ xs = <<<<"-", "-", "a", "=", "a">>>>
    /\ render(vec) = <<<<"-", "-", "a">>, <<"a">>>>
    /\ Retokenized.vec = vec

\* C14: head is usize::MAX while no index has been removed and otherwise the
\* smallest index removed so far (it is marked removed, every lower index is
\* present); no call increases head.
C14_HeadIsLeftmostRemoved ==
    pc = "run" =>
        /\ (\A i \in 1..Len(removed) : ~removed[i]) => head = UsizeMax
        /\ (\E i \in 1..Len(removed) : removed[i]) =>
               /\ head \in 0..(Len(items) - 1)
               /\ removed[head + 1]
               /\ \A k \in 0..(head - 1) : ~removed[k + 1]
        /\ last.op # "from" => head <= last.pre.head

\* index 2 is removed after index 0: head stays 0
C14_Witness ==
    /\ last.op # "from"
    /\ last.pre.removed = <<TRUE, FALSE, FALSE>>
    /\ removed = <<TRUE, FALSE, TRUE>>
    /\ head = 0

\* C15: remove(i) on an index that is removed already changes nothing:
\* removed, remaining, head and current stay as they were.
C15_RemoveIdempotent ==
    (last.op = "remove" /\ last.pre.removed[last.arg + 1]) => Buf = last.pre

\* the value index that a take_arg consumed is removed once more
C15_Witness ==
    /\ last.op = "remove"
    /\ last.pre.removed[last.arg + 1]
    /\ last.arg > head
    /\ current # None

\* the Word tokens that the last call removed
WordsTaken ==
    {i \in 0..(Len(items) - 1) :
        ~last.pre.removed[i + 1] /\ removed[i + 1] /\ items[i + 1].tag = "Word"}
Primitives == {"take_flag", "take_arg", "take_positional_word", "take_cmd"}
Returned == last.op \in {"take_arg", "take_positional_word"}
                /\ last.ret.kind = "Ok" /\ last.ret.val # <<>>

\* C16 as stated: current is None until a primitive has removed a Word, and
\* then is the Word token removed by the latest primitive call that removed
\* one (take_arg, take_positional_word or take_cmd).
C16_CurrentIsLastConsumedWord ==
    pc = "run" =>
        /\ last.op = "from" => current = <<>>
        /\ last.op = "remove" => current = last.pre.current
        /\ last.op \in Primitives =>
               IF WordsTaken # {}
               THEN \E i \in WordsTaken : current = <<items[i + 1].w>>
               ELSE current = last.pre.current

\* C16 amended: current is None until take_arg or take_positional_word has
\* succeeded, and then is the Word that the latest successful one of the two
\* returned; take_cmd removes its Word and leaves current alone.
C16_CurrentIsLastReturnedWord ==
    pc = "run" =>
        /\ last.op = "from" => current = <<>>
        /\ (last.op # "from" /\ Returned) =>
               /\ current = last.ret.val
               /\ \E i \in WordsTaken : current = <<items[i + 1].w>>
        /\ (last.op # "from" /\ ~Returned) => current = last.pre.current

\* take_cmd consumes the word a while current still holds the Word that
\* take_positional_word returned before
C16_Witness ==
    /\ last.op = "take_cmd"
    /\ last.ret = TRUE
    /\ WordsTaken # {}
    /\ current = <<[utf8 |-> <<>>, os |-> <<InvalidByte>>]>>


\* the call recorded in last was made on the clone b2
OnB2 == "on" \in DOMAIN last

\* C17: once b2 = b.clone() exists, a call on b2 leaves removed, remaining,
\* head and current of b as they were, a call on b leaves those of b2 as they
\* were, and no step changes the token sequence the two buffers read.
C17_ClonesIndependent ==
    [][/\ items' = items
       /\ (clone # None /\ clone' # None) =>
              IF OnB2' THEN Buf' = Buf ELSE clone' = clone]_vars

\* both buffers have consumed from the shared tokens since the clone was made,
\* and differently: b2 has a call behind it and the two bitmaps differ
C17_Witness ==
    /\ clone # None
    /\ OnB2
    /\ remaining < Len(items)
    /\ clone[1].remaining < Len(items)
    /\ clone[1].removed # removed
    /\ clone[1].current # current

\* the last call was a primitive that succeeded
Succeeded ==
    \/ last.op \in {"take_flag", "take_cmd"} /\ last.ret = TRUE
    \/ /\ last.op \in {"take_arg", "take_positional_word"}
       /\ last.ret.kind = "Ok"
       /\ last.ret.val # <<>>
\* the indices the last call removed: present before it, removed after it
Consumed == {i \in 0..(Len(items) - 1) : ~last.pre.removed[i + 1] /\ removed[i + 1]}
RemovedSet(bitmap) == {i \in 0..(Len(items) - 1) : bitmap[i + 1]}

\* C18: a call never makes a removed index present again; a successful
\* primitive removes one index (take_arg: two) that was present before the
\* call, the Word it returns sits at such an index, and remaining falls by
\* their number; so the removed set is the disjoint union of what the calls
\* consumed and its size is what remaining has fallen by.
C18_NoIndexConsumedTwice ==
    /\ last.op \in Primitives \cup {"remove"} =>
           /\ RemovedSet(last.pre.removed) \subseteq RemovedSet(removed)
           /\ RemovedSet(removed) = RemovedSet(last.pre.removed) \cup Consumed
           /\ remaining = last.pre.remaining - Cardinality(Consumed)
    /\ last.op \in Primitives =>
           /\ Cardinality(Consumed) =
                  IF ~Succeeded THEN 0 ELSE IF last.op = "take_arg" THEN 2 ELSE 1
           /\ Returned =>
                  \E i \in Consumed : items[i + 1] = ArgWord(last.ret.val[1])
           /\ (Succeeded /\ last.op \in {"take_flag", "take_arg"}) =>
                  \E i \in Consumed : Matches(last.arg, items[i + 1])
    /\ pc = "run" => Cardinality(RemovedSet(removed)) = Len(items) - remaining

\* tests::two_short_flags2: take_flag succeeds on a token whose twin at a
\* lower index an earlier call has removed, and consumes the second one
C18_Witness ==
    /\ last.op = "take_flag"
    /\ last.ret = TRUE
    /\ \E i \in RemovedSet(last.pre.removed) : \E j \in Consumed :
           i < j /\ items[i + 1] = items[j + 1]

\* the present indices whose token the predicate accepts
Matching(b, predicate) ==
    {i \in 0..(Len(items) - 1) : Present(b, i) /\ Matches(predicate, items[i + 1])}

\* what take_flag(predicate) returns when it is called calls times in a row
RECURSIVE Returns(_, _, _)
Returns(b, predicate, calls) ==
    IF calls = 0 THEN <<>>
    ELSE LET r == take_flag(b, predicate)
         IN  <<r.ret>> \o Returns(r.buf, predicate, calls - 1)

\* C19: len() stays within 0..n and every successful primitive lowers it; and
\* take_flag called on any buffer and then repeated with the same predicate
\* returns true once for each matching token that was present before the
\* first call and false on every call after those.
C19_RepetitionTerminates ==
    pc = "run" =>
        /\ len(Buf) \in 0..Len(items)
        /\ (last.op \in Primitives /\ Succeeded) => len(Buf) < len(last.pre)
        /\ last.op = "take_flag" =>
               LET n == Cardinality(Matching(last.pre, last.arg))
               IN  <<last.ret>> \o Returns(Buf, last.arg, Len(items) + 1)
                       = [k \in 1..(Len(items) + 2) |-> k <= n]

\* tests::multiple_short_flags: the third take_flag in a row succeeds on the
\* tokens of -aaa and empties the buffer, so that a fourth returns false
C19_Witness ==
    /\ items = <<Short("a"), Short("a"), Short("a")>>
    /\ last.op = "take_flag"
    /\ last.ret = TRUE
    /\ last.pre.remaining = 1
    /\ len(Buf) = 0
    /\ Returns(Buf, last.arg, 1) = <<FALSE>>

\* no token of the buffer satisfies both predicates
Apart(p, q) ==
    \A i \in 1..Len(items) : ~(Matches(p, items[i]) /\ Matches(q, items[i]))

\* C20: whenever take_flag(p) has been called on a buffer, for every predicate
\* q that shares no token with p: take_flag(q) called next returns what
\* take_flag(q) would have returned before the call of p, take_flag(p) after
\* that take_flag(q) would have returned what the call of p did, and both
\* orders end with the same removed bitmap, remaining and head.
C20_TakeFlagCommutes ==
    last.op = "take_flag" =>
        \A q \in Predicates :
            Apart(last.arg, q) =>
                LET q2 == take_flag(Buf, q)
                    q1 == take_flag(last.pre, q)
                    p2 == take_flag(q1.buf, last.arg)
                IN  /\ last.ret = p2.ret
                    /\ q1.ret = q2.ret
                    /\ q2.buf.removed = p2.buf.removed
                    /\ q2.buf.remaining = p2.buf.remaining
                    /\ q2.buf.head = p2.buf.head

\* tests::two_short_flags2: take_flag(p) has consumed its flag from behind the
\* present flag of another parser q, which take_flag(q) still finds
C20_Witness ==
    /\ last.op = "take_flag"
    /\ last.ret = TRUE
    /\ \E q \in Predicates :
           /\ Apart(last.arg, q)
           /\ \E i \in Matching(last.pre, q) : \E j \in Consumed : i < j
           /\ take_flag(Buf, q).ret = TRUE
           /\ take_flag(Buf, q).buf.head < head

\* C21: when take_arg succeeds with its flag at index i (the lowest present
\* index whose token the predicate accepts), the Word it returns and removes
\* is the token at index i + 1 of the token vector, whatever calls came before.
C21_ValueFollowsFlag ==
    (last.op = "take_arg" /\ Succeeded) =>
        \E i \in 0..(Len(items) - 2) :
            /\ FirstMatch(last.pre, last.arg, i)
            /\ Consumed = {i, i + 1}
            /\ items[i + 2] = ArgWord(last.ret.val[1])

\* the raw argument of the last push_vec is the exact -- that ends the flags
FirstTerminator == ~last.pos_only /\ last.os = DashDash

\* C22: every raw argument other than the first exact -- adds at least one
\* token to the end of the token vector and leaves the tokens of the raw
\* arguments before it in place.
C22_EveryArgumentLeavesAToken ==
    (last.op = "push_vec" /\ pc # "panic" /\ ~FirstTerminator) =>
        /\ Len(vec) > Len(last.vec)
        /\ Take(vec, Len(last.vec)) = last.vec
====
